---- MODULE Spec2Model ----
(***************************************************************************)
(* TabGen: FingerManager (core/managers/fingermanager.py) and Sketch       *)
(* (core/fusion/sketch/sketch.py).                                         *)
(*                                                                         *)
(* FingerManager.draw is a fixed script of calls into the host CAD         *)
(* application.  The host document is modelled by what the calls leave in  *)
(* it: the sequence of host calls issued (log), the rectangular pattern    *)
(* features (patterns), the timeline (timeline, marker) and its groups     *)
(* (groups).  The manager object is modelled by its attributes (attrs),    *)
(* the position of draw in its script (step, status) and the local         *)
(* start_mp.  Sketch.offset_point is a pure function of the sketch         *)
(* orientation and its arguments; it is exercised by SpecSketch.           *)
(***************************************************************************)
EXTENDS Integers, Sequences, FiniteSets, TLC

VARIABLES
    is_vertical,   \* self.border.is_vertical
    params,        \* self.params: offset, distance, depth
    inputs,        \* self.inputs: tab_first, parametric, interior
    primary,       \* state of the edge reference self.border.reference_line
    secondary,     \* state of the perpendicular edge reference
    timeline,      \* host timeline: the items, in order
    marker,        \* timeline.markerPosition
    start_mp,      \* local of draw
    step,          \* index of the next statement of draw
    status,        \* "running", "done" or "raised"
    log,           \* host calls issued so far, in order
    patterns,      \* rectangular pattern features of the host
    groups,        \* timeline groups of the host
    modcalls,      \* arguments of each call of self.modifier
    attrs,         \* attributes of the FingerManager object
    calls,         \* each call of duplicate: its arguments and its outcome
    sk_vertical,   \* Sketch.is_vertical
    sk_width,      \* Sketch.border.width
    sk_point,      \* the Point3D object handed to a Sketch method
    sk_call,       \* the last Sketch call: method and arguments
    sk_result      \* the Point3D it computed

drawvars == <<is_vertical, params, inputs, primary, secondary, timeline, marker,
              start_mp, step, status, log, patterns, groups, modcalls, attrs, calls>>

sketchvars == <<sk_vertical, sk_width, sk_point, sk_call, sk_result>>

vars == <<is_vertical, params, inputs, primary, secondary, timeline, marker,
          start_mp, step, status, log, patterns, groups, modcalls, attrs, calls,
          sk_vertical, sk_width, sk_point, sk_call, sk_result>>

---------------------------------------------------------------------------
(* Bounds *)

MaxOffset == 1
MaxDistance == 1
MaxDepth == 1
MaxInterior == 1
MaxTimeline == 2
MaxCoord == 1
MaxLength == 1

---------------------------------------------------------------------------
(* Host references and host calls *)

\* An edge reference is None, a reference the kernel has invalidated, or valid.
RefStates == {"None", "invalid", "valid"}

\* Python truth value of a reference: None is falsy.
Truthy(ref) == ref # "None"

\* ref.isValid, read only on a reference that is not None.
IsValid(ref) == ref = "valid"

\* A cut may consume the edge a reference points to.
HostAfterCut(ref) == IF ref = "valid" THEN {"valid", "invalid"} ELSE {ref}

\* One call into the host: the method, the rectangle it is about, its object
\* and its argument.
Op(o, r, ob, a) == [op |-> o, rect |-> r, obj |-> ob, arg |-> a]

\* The host inserts a new feature at the marker and moves the marker past it.
TimelineAdd(tl, m, name) ==
    SubSeq(tl, 1, m) \o <<name>> \o SubSeq(tl, m + 1, Len(tl))

AttrNames == {"finger", "finger_dimension", "offset_dimension", "finger_cut",
              "finger_pattern", "left_corner", "right_corner", "corner_cut",
              "corner_pattern", "left_dimension", "right_dimension"}

\* getattr(self, name, None)
GetAttr(a, name) == IF a[name] = "unset" THEN "None" ELSE a[name]

---------------------------------------------------------------------------
(* FingerManager: the script of draw *)

draw_finger_body_reordered ==
    <<"finger_rect", "extrude_finger", "constrain_finger", "duplicate_finger">>

draw_finger_body ==
    <<"finger_rect", "constrain_finger", "extrude_finger", "duplicate_finger">>

draw_corner_body ==
    <<"left_corner", "right_corner", "extrude_corner", "duplicate_corner",
      "constrain_corners">>

DrawCornerCond_offset_only(p, i) == p.offset # 0

\* if self.params.offset and not self.inputs.tab_first
DrawCornerCond(p, i) == p.offset # 0 /\ ~i.tab_first

RunModifier_inverted(i) == i.parametric

\* if not self.inputs.parametric
RunModifier(i) == ~i.parametric

draw_body(p, i) ==
    <<"entry">> \o draw_finger_body
    \o (IF DrawCornerCond(p, i) THEN draw_corner_body ELSE <<>>)
    \o (IF RunModifier(i) THEN <<"modifier">> ELSE <<>>)
    \o <<"group">>

\* The statement draw is about to execute.
Cur == IF status = "running" THEN draw_body(params, inputs)[step] ELSE status

Propagate_swallow(outcome) == "running"

\* draw, draw_finger and draw_corner have no try/except: an exception of
\* duplicate ends the run.
Propagate(outcome) == IF outcome = "ok" THEN "running" ELSE "raised"

---------------------------------------------------------------------------
(* FingerManager: constraints *)

\* constrain_finger: the host calls it issues, in order.
constrain_finger(vertical) ==
    IF vertical
    THEN << Op("addVertical", "finger", "bottom", ""),
            Op("addVertical", "finger", "top", ""),
            Op("addHorizontal", "finger", "left", ""),
            Op("addHorizontal", "finger", "right", ""),
            Op("addDistanceDimension", "finger", "bottom.left:top.left",
               "VerticalDimension"),
            Op("addDistanceDimension", "finger", "bottom.left:border.bottom.left",
               "VerticalDimension"),
            Op("addCoincident", "finger", "bottom.right", "border.right.line"),
            Op("addCoincident", "finger", "top.left", "border.left.line") >>
    ELSE << Op("addHorizontal", "finger", "bottom", ""),
            Op("addHorizontal", "finger", "top", ""),
            Op("addVertical", "finger", "left", ""),
            Op("addVertical", "finger", "right", ""),
            Op("addDistanceDimension", "finger", "bottom.left:bottom.right",
               "HorizontalDimension"),
            Op("addDistanceDimension", "finger", "bottom.left:border.bottom.left",
               "HorizontalDimension"),
            Op("addCoincident", "finger", "bottom.left", "border.bottom.line"),
            Op("addCoincident", "finger", "top.right", "border.top.line") >>

\* The calls constrain_horizontal_corners issues for one corner rectangle:
\* coincident1 and coincident2 are the border objects its two coincident
\* constraints pin it to.
horizontal_corner(rect, coincident1, coincident2) ==
    << Op("addDistanceDimension", rect, "bottom.left:bottom.right",
          "HorizontalDimension"),
       Op("addCoincident", rect, "bottom.left", coincident1),
       Op("addCoincident", rect, "top.right", coincident2),
       Op("addHorizontal", rect, "bottom", ""),
       Op("addHorizontal", rect, "top", ""),
       Op("addVertical", rect, "left", ""),
       Op("addVertical", rect, "right", "") >>

constrain_horizontal_corners ==
    horizontal_corner("left_corner", "border.bottom.left.point", "border.top.line")
    \o horizontal_corner("right_corner", "border.bottom.line",
                         "border.top.right.point")

\* The calls constrain_vertical_corners issues for one corner rectangle.
vertical_corner(rect, coincident1, coincident2) ==
    << Op("addDistanceDimension", rect, "bottom.left:bottom.right",
          "HorizontalDimension"),
       Op("addCoincident", rect, "bottom.left", coincident1),
       Op("addCoincident", rect, "top.right", coincident2),
       Op("addHorizontal", rect, "bottom", ""),
       Op("addHorizontal", rect, "top", ""),
       Op("addVertical", rect, "left", ""),
       Op("addVertical", rect, "right", "") >>

constrain_vertical_corners ==
    vertical_corner("left_corner", "border.bottom.left.point", "border.top.line")
    \o vertical_corner("right_corner", "border.bottom.line",
                       "border.top.right.point")

---------------------------------------------------------------------------
(* FingerManager: extrude and duplicate *)

\* extrude: one cut feature, named, its distance -abs(depth * 10).
extrude(name, p) ==
    << Op("extrudes.createInput", "", name, "CutFeatureOperation"),
       Op("extrudes.add", "", name, ToString(0 - (p.depth * 10))) >>

PrimaryMissing_no_isvalid(prim) == ~Truthy(prim)

\* if not primary or not primary.isValid
PrimaryMissing(prim) == ~Truthy(prim) \/ ~IsValid(prim)

\* duplicate(name, features, quantity, distance, squantity, primary, secondary,
\* body): what one call does.  call says which call site it is; the result
\* holds the arguments the call saw, how it ended (outcome), the host calls
\* it issued (ops) and the pattern feature it added (added).  The trace calls
\* keeps each result with the document the call found (doc, features).
duplicate(call, name, squantity, prim, sec, p) ==
    LET seen == [call |-> call, primary |-> prim, secondary |-> sec,
                 distance |-> p.distance]
        created == <<Op("patterns.createInput", "", name, "")>>
        add == <<Op("patterns.add", "", name, "")>>
        raised(err, issued) ==
            seen @@ [outcome |-> err, ops |-> issued, added |-> <<>>]
        returned(issued, second) ==
            seen @@ [outcome |-> "ok", ops |-> issued,
                     added |-> <<[name |-> name, second |-> second,
                                  squantity |-> IF second THEN squantity ELSE 0,
                                  sdistance |-> IF second
                                                THEN p.distance - p.depth
                                                ELSE 0]>>]
    IN  IF PrimaryMissing(prim)
        THEN raised("PrimaryAxisMissing", <<>>)
        ELSE IF p.distance > 0 /\ Truthy(sec) /\ IsValid(sec)
        THEN returned(created \o <<Op("setDirectionTwo", "", name, "")>> \o add,
                      TRUE)
        ELSE IF ~Truthy(sec)
        THEN \* secondary.isValid on None
             raised("AttributeError", created)
        ELSE returned(created
                      \o <<Op("messageBox", "", "ui",
                              IF IsValid(sec) THEN "secondary valid: True"
                              ELSE "secondary valid: False")>>
                      \o add,
                      FALSE)

---------------------------------------------------------------------------
(* FingerManager.draw, statement by statement *)

Advance == step' = step + 1

\* The timeline group draw adds: timelineGroups.add(start_mp, end_mp - 1).
GroupRange_off_by_one(smp, end_mp) == <<smp, end_mp>>

GroupRange(smp, end_mp) == <<smp, end_mp - 1>>

\* start_mp = timeline.markerPosition - 1
StartMp(m) == m - 1

DrawEntry ==
    /\ Cur = "entry"
    /\ start_mp' = StartMp(marker)
    /\ Advance
    /\ UNCHANGED <<is_vertical, params, inputs, primary, secondary, timeline,
                   marker, status, log, patterns, groups, modcalls, attrs, calls>>
    /\ UNCHANGED sketchvars

DrawFingerRect ==
    /\ Cur = "finger_rect"
    /\ log' = Append(log, Op("addTwoPointRectangle", "finger", "", ""))
    /\ attrs' = [attrs EXCEPT !["finger"] = "finger"]
    /\ Advance
    /\ UNCHANGED <<is_vertical, params, inputs, primary, secondary, timeline,
                   marker, start_mp, status, patterns, groups, modcalls, calls>>
    /\ UNCHANGED sketchvars

ConstrainFinger ==
    /\ Cur = "constrain_finger"
    /\ log' = log \o constrain_finger(is_vertical)
    /\ attrs' = [attrs EXCEPT !["finger_dimension"] = "finger_dimension",
                              !["offset_dimension"] = "offset_dimension"]
    /\ Advance
    /\ UNCHANGED <<is_vertical, params, inputs, primary, secondary, timeline,
                   marker, start_mp, status, patterns, groups, modcalls, calls>>
    /\ UNCHANGED sketchvars

\* One call of extrude and the host's side of it: the cut enters the timeline
\* at the marker, and the kernel may invalidate edge references.
Extrude(name, attr) ==
    /\ log' = log \o extrude(name, params)
    /\ timeline' = TimelineAdd(timeline, marker, name)
    /\ marker' = marker + 1
    /\ attrs' = [attrs EXCEPT ![attr] = name]
    /\ primary' \in HostAfterCut(primary)
    /\ secondary' \in HostAfterCut(secondary)
    /\ Advance
    /\ UNCHANGED <<is_vertical, params, inputs, start_mp, status, patterns,
                   groups, modcalls, calls>>
    /\ UNCHANGED sketchvars

ExtrudeFinger ==
    /\ Cur = "extrude_finger"
    /\ Extrude("Finger Cut Extrude", "finger_cut")

\* One call of duplicate from draw_finger or draw_corner, and the assignment
\* of its result.
Duplicate(r, attr) ==
    /\ calls' = Append(calls, r @@ [doc |-> log, features |-> timeline])
    /\ log' = log \o r.ops
    /\ patterns' = patterns \o r.added
    /\ timeline' = IF r.added = <<>> THEN timeline
                   ELSE TimelineAdd(timeline, marker, r.added[1].name)
    /\ marker' = IF r.added = <<>> THEN marker ELSE marker + 1
    /\ attrs' = IF r.outcome = "ok"
                THEN [attrs EXCEPT ![attr] = r.added[1].name]
                ELSE attrs
    /\ status' = Propagate(r.outcome)
    /\ step' = IF r.outcome = "ok" THEN step + 1 ELSE step
    /\ UNCHANGED <<is_vertical, params, inputs, primary, secondary, start_mp,
                   groups, modcalls>>
    /\ UNCHANGED sketchvars

DuplicateFinger ==
    /\ Cur = "duplicate_finger"
    /\ Duplicate(duplicate("finger", "Finger Duplicate Pattern",
                           inputs.interior + 2, primary, secondary, params),
                 "finger_pattern")

DrawLeftCorner ==
    /\ Cur = "left_corner"
    /\ log' = Append(log, Op("addTwoPointRectangle", "left_corner", "", ""))
    /\ attrs' = [attrs EXCEPT !["left_corner"] = "left_corner"]
    /\ Advance
    /\ UNCHANGED <<is_vertical, params, inputs, primary, secondary, timeline,
                   marker, start_mp, status, patterns, groups, modcalls, calls>>
    /\ UNCHANGED sketchvars

DrawRightCorner ==
    /\ Cur = "right_corner"
    /\ log' = Append(log, Op("addTwoPointRectangle", "right_corner", "", ""))
    /\ attrs' = [attrs EXCEPT !["right_corner"] = "right_corner"]
    /\ Advance
    /\ UNCHANGED <<is_vertical, params, inputs, primary, secondary, timeline,
                   marker, start_mp, status, patterns, groups, modcalls, calls>>
    /\ UNCHANGED sketchvars

ExtrudeCorner ==
    /\ Cur = "extrude_corner"
    /\ Extrude("Corner Cut Extrude", "corner_cut")

DuplicateCorner ==
    /\ Cur = "duplicate_corner"
    /\ Duplicate(duplicate("corner", "Corner Duplicate Pattern", 2, primary,
                           secondary, params),
                 "corner_pattern")

ConstrainCorners ==
    /\ Cur = "constrain_corners"
    /\ log' = log \o (IF is_vertical THEN constrain_vertical_corners
                      ELSE constrain_horizontal_corners)
    /\ attrs' = [attrs EXCEPT !["left_dimension"] = "left_dimension",
                              !["right_dimension"] = "right_dimension"]
    /\ Advance
    /\ UNCHANGED <<is_vertical, params, inputs, primary, secondary, timeline,
                   marker, start_mp, status, patterns, groups, modcalls, calls>>
    /\ UNCHANGED sketchvars

\* self.modifier(...): the arguments it is handed.
Modifier ==
    /\ Cur = "modifier"
    /\ modcalls' = Append(modcalls,
                          [finger_dimension |-> attrs["finger_dimension"],
                           offset_dimension |-> attrs["offset_dimension"],
                           finger_cut |-> attrs["finger_cut"],
                           finger_pattern |-> attrs["finger_pattern"],
                           corner_cut |-> GetAttr(attrs, "corner_cut"),
                           corner_pattern |-> GetAttr(attrs, "corner_pattern"),
                           left_dimension |-> GetAttr(attrs, "left_dimension"),
                           right_dimension |-> GetAttr(attrs, "right_dimension")])
    /\ log' = Append(log, Op("modifier", "", "", ""))
    /\ Advance
    /\ UNCHANGED <<is_vertical, params, inputs, primary, secondary, timeline,
                   marker, start_mp, status, patterns, groups, attrs, calls>>
    /\ UNCHANGED sketchvars

TimelineGroup ==
    /\ Cur = "group"
    /\ groups' = Append(groups, GroupRange(start_mp, marker))
    /\ log' = Append(log, Op("timelineGroups.add", "", "Finger Group", ""))
    /\ status' = "done"
    /\ UNCHANGED <<is_vertical, params, inputs, primary, secondary, timeline,
                   marker, start_mp, step, patterns, modcalls, attrs, calls>>
    /\ UNCHANGED sketchvars

---------------------------------------------------------------------------
(* Sketch *)

Coords == (0 - MaxCoord) .. MaxCoord

Lengths == (0 - MaxLength) .. MaxLength

offset_point_unswapped(vertical, point, length, width) ==
    <<point[1] + length, point[2] + width, point[3]>>

\* Sketch.offset_point(point, length, width): points are <<x, y, z>>.
offset_point(vertical, point, length, width) ==
    LET xoffset == IF vertical THEN width ELSE length
        yoffset == IF vertical THEN length ELSE width
    IN  <<point[1] + xoffset, point[2] + yoffset, point[3]>>

SketchIdle ==
    /\ sk_vertical = FALSE
    /\ sk_width = 0
    /\ sk_point = <<0, 0, 0>>
    /\ sk_call = [fn |-> "none", length |-> 0, width |-> 0]
    /\ sk_result = <<0, 0, 0>>

\* A direct call offset_point(point, length, width).
OffsetPoint ==
    \E length \in Lengths, width \in Lengths :
        /\ sk_call' = [fn |-> "offset_point", length |-> length, width |-> width]
        /\ sk_result' = offset_point(sk_vertical, sk_point, length, width)
        /\ UNCHANGED <<sk_vertical, sk_width, sk_point>>
        /\ UNCHANGED drawvars

\* A call offset_point(point, length): width takes its default, 0.
OffsetPointDefault ==
    \E length \in Lengths :
        /\ sk_call' = [fn |-> "offset_point", length |-> length, width |-> 0]
        /\ sk_result' = offset_point(sk_vertical, sk_point, length, 0)
        /\ UNCHANGED <<sk_vertical, sk_width, sk_point>>
        /\ UNCHANGED drawvars

\* draw_rectangle(point, length): the far corner is
\* offset_point(point, length, self.border.width).
DrawRectangle ==
    \E length \in Lengths :
        /\ sk_call' = [fn |-> "draw_rectangle", length |-> length,
                       width |-> sk_width]
        /\ sk_result' = offset_point(sk_vertical, sk_point, length, sk_width)
        /\ UNCHANGED <<sk_vertical, sk_width, sk_point>>
        /\ UNCHANGED drawvars

\* draw_margin(point): the end point is offset_point(point, 0, self.border.width).
DrawMargin ==
    /\ sk_call' = [fn |-> "draw_margin", length |-> 0, width |-> sk_width]
    /\ sk_result' = offset_point(sk_vertical, sk_point, 0, sk_width)
    /\ UNCHANGED <<sk_vertical, sk_width, sk_point>>
    /\ UNCHANGED drawvars

---------------------------------------------------------------------------
(* Specifications *)

\* The state on entry to draw of a freshly constructed FingerManager.
DrawInit ==
    /\ is_vertical \in BOOLEAN
    /\ params \in [offset : 0 .. MaxOffset,
                   distance : (0 - MaxDistance) .. MaxDistance,
                   depth : 1 .. MaxDepth]
    /\ inputs \in [tab_first : BOOLEAN, parametric : BOOLEAN,
                   interior : 0 .. MaxInterior]
    /\ primary \in RefStates
    /\ secondary \in RefStates
    /\ \E n \in 1 .. MaxTimeline : timeline = [k \in 1 .. n |-> "earlier"]
    /\ marker \in 1 .. Len(timeline)
    /\ start_mp = 0
    /\ step = 1
    /\ status = "running"
    /\ log = <<>>
    /\ patterns = <<>>
    /\ groups = <<>>
    /\ modcalls = <<>>
    /\ attrs = [a \in AttrNames |-> "unset"]
    /\ calls = <<>>

Init == DrawInit /\ SketchIdle

Next ==
    \/ DrawEntry
    \/ DrawFingerRect
    \/ ConstrainFinger
    \/ ExtrudeFinger
    \/ DuplicateFinger
    \/ DrawLeftCorner
    \/ DrawRightCorner
    \/ ExtrudeCorner
    \/ DuplicateCorner
    \/ ConstrainCorners
    \/ Modifier
    \/ TimelineGroup

Spec == Init /\ [][Next]_vars

\* A Sketch over a border of either orientation, and a point handed to it;
\* no FingerManager is drawing.
InitSketch ==
    /\ sk_vertical \in BOOLEAN
    /\ sk_width \in 0 .. MaxLength
    /\ sk_point \in Coords \X Coords \X Coords
    /\ sk_call = [fn |-> "none", length |-> 0, width |-> 0]
    /\ sk_result = <<0, 0, 0>>
    /\ is_vertical = FALSE
    /\ params = [offset |-> 0, distance |-> 0, depth |-> 1]
    /\ inputs = [tab_first |-> FALSE, parametric |-> FALSE, interior |-> 0]
    /\ primary = "valid"
    /\ secondary = "valid"
    /\ timeline = <<"earlier">>
    /\ marker = 1
    /\ start_mp = 0
    /\ step = 1
    /\ status = "idle"
    /\ log = <<>>
    /\ patterns = <<>>
    /\ groups = <<>>
    /\ modcalls = <<>>
    /\ attrs = [a \in AttrNames |-> "unset"]
    /\ calls = <<>>

NextSketch ==
    \/ OffsetPoint
    \/ OffsetPointDefault
    \/ DrawRectangle
    \/ DrawMargin

SpecSketch == InitSketch /\ [][NextSketch]_vars

---------------------------------------------------------------------------
(* Reading the document *)

\* Positions in the log of the host calls of one kind.
RectAt(r) == {k \in DOMAIN log : log[k].op = "addTwoPointRectangle" /\ log[k].rect = r}

ConstraintOps == {"addHorizontal", "addVertical", "addCoincident",
                  "addDistanceDimension"}

ConstrainAt(r) == {k \in DOMAIN log : log[k].op \in ConstraintOps /\ log[k].rect = r}

AddAt(o, name) == {k \in DOMAIN log : log[k].op = o /\ log[k].obj = name}

FingerCutAt == AddAt("extrudes.add", "Finger Cut Extrude")

FingerPatternAt == AddAt("patterns.add", "Finger Duplicate Pattern")

CornerCutAt == AddAt("extrudes.add", "Corner Cut Extrude")

CornerPatternAt == AddAt("patterns.add", "Corner Duplicate Pattern")

ModifierAt == {k \in DOMAIN log : log[k].op = "modifier"}

GroupAt == {k \in DOMAIN log : log[k].op = "timelineGroups.add"}

Corners == {"left_corner", "right_corner"}

\* Every host call that is about a corner.
CornerAt ==
    {k \in DOMAIN log : log[k].rect \in Corners
                        \/ log[k].obj \in {"Corner Cut Extrude",
                                           "Corner Duplicate Pattern"}}

Before(A, B) == \A a \in A, b \in B : a < b

Ended == status \in {"done", "raised"}

CornersWanted == params.offset # 0 /\ ~inputs.tab_first

Issued(c, o) == \E k \in DOMAIN c.ops : c.ops[k].op = o

---------------------------------------------------------------------------
(* Claims *)

\* C1: every call of duplicate, from draw_finger or from draw_corner, raises
\* PrimaryAxisMissing if and only if the primary reference it was handed is
\* None or has isValid false; a call that raises has created no pattern input
\* and added no pattern feature: the document is the one the call found.
C1_RaisesIffPrimaryMissing ==
    \A k \in DOMAIN calls :
        LET c == calls[k] IN
        /\ c.outcome = "PrimaryAxisMissing" <=> c.primary \in {"None", "invalid"}
        /\ c.outcome = "PrimaryAxisMissing" =>
              /\ ~Issued(c, "patterns.createInput")
              /\ ~Issued(c, "patterns.add")
              /\ c.added = <<>>
              /\ log = c.doc
              /\ timeline = c.features
              /\ Len(patterns) = k - 1

\* The corner call raises after the finger call has returned a pattern.
C1_Witness ==
    /\ Len(calls) = 2
    /\ calls[1].call = "finger" /\ calls[1].outcome = "ok"
    /\ calls[2].call = "corner" /\ calls[2].outcome = "PrimaryAxisMissing"
    /\ calls[2].primary = "invalid"

\* C2: in a run of draw that does not raise, the finger rectangle is drawn,
\* then its eight constraints and dimensions are added, then the finger cut is
\* extruded, then the pattern of that cut is added, and the modifier, when it
\* runs, runs after all of them.
C2_FingerOrder ==
    status = "done" =>
        /\ Cardinality(RectAt("finger")) = 1
        /\ Cardinality(ConstrainAt("finger")) = 8
        /\ Cardinality(FingerCutAt) = 1
        /\ Cardinality(FingerPatternAt) = 1
        /\ Before(RectAt("finger"), ConstrainAt("finger"))
        /\ Before(ConstrainAt("finger"), FingerCutAt)
        /\ Before(ConstrainAt("finger"),
                  AddAt("extrudes.createInput", "Finger Cut Extrude"))
        /\ Before(FingerCutAt, FingerPatternAt)
        /\ Before(FingerCutAt,
                  AddAt("patterns.createInput", "Finger Duplicate Pattern"))
        /\ Before(FingerPatternAt, ModifierAt)

\* A run that ended without raising and ran the modifier.
C2_Witness == status = "done" /\ ModifierAt # {} /\ FingerPatternAt # {}

\* No call of duplicate has ended in the AttributeError of secondary.isValid
\* on None.
NoAttributeError == \A k \in DOMAIN calls : calls[k].outcome # "AttributeError"

\* C3 as stated: at the end of every run of draw, corner operations have been
\* performed if and only if params.offset is non-zero and inputs.tab_first is
\* false, and none of them precedes the finger cut and pattern.  Runs ended
\* by the AttributeError are set aside, so that a run refuting this is one
\* the code means to have.
C3_Original ==
    NoAttributeError =>
        /\ Before(RectAt("finger") \cup FingerCutAt \cup FingerPatternAt, CornerAt)
        /\ Ended => (CornerAt # {} <=> CornersWanted)

\* C3 as amended: no corner operation is issued before the finger is drawn,
\* cut and patterned; and in a run in which draw_finger returned, both corner
\* rectangles are drawn and the corner cut is extruded if and only if
\* params.offset is non-zero and inputs.tab_first is false.
C3_CornersAfterFinger ==
    /\ CornerAt # {} =>
          /\ RectAt("finger") # {} /\ FingerCutAt # {} /\ FingerPatternAt # {}
          /\ Before(RectAt("finger") \cup FingerCutAt \cup FingerPatternAt,
                    CornerAt)
    /\ Ended /\ calls[1].outcome = "ok" =>
          /\ CornersWanted =>
                /\ Cardinality(RectAt("left_corner")) = 1
                /\ Cardinality(RectAt("right_corner")) = 1
                /\ Cardinality(CornerCutAt) = 1
          /\ ~CornersWanted => CornerAt = {}

\* A run that drew the corners and ended without raising.
C3_Witness == status = "done" /\ CornerCutAt # {} /\ CornerPatternAt # {}

\* C7: when a call of duplicate raises PrimaryAxisMissing the run ends there:
\* the document is the one the call found, with the finger rectangle, its
\* constraints and the finger cut in it (and, for the corner call, the finger
\* pattern, both corner rectangles and the corner cut), and no corner
\* constraint, no modifier call and no timeline group follows.
C7_NoRecovery ==
    \A k \in DOMAIN calls :
        LET c == calls[k] IN
        c.outcome = "PrimaryAxisMissing" =>
            /\ status = "raised"
            /\ k = Len(calls)
            /\ log = c.doc
            /\ timeline = c.features
            /\ Cardinality(RectAt("finger")) = 1
            /\ Cardinality(ConstrainAt("finger")) = 8
            /\ Cardinality(FingerCutAt) = 1
            /\ \E j \in DOMAIN timeline : timeline[j] = "Finger Cut Extrude"
            /\ c.call = "corner" =>
                  /\ Cardinality(FingerPatternAt) = 1
                  /\ Len(patterns) = 1
                  /\ Cardinality(RectAt("left_corner")) = 1
                  /\ Cardinality(RectAt("right_corner")) = 1
                  /\ Cardinality(CornerCutAt) = 1
                  /\ \E j \in DOMAIN timeline : timeline[j] = "Corner Cut Extrude"
            /\ ConstrainAt("left_corner") \cup ConstrainAt("right_corner") = {}
            /\ ModifierAt = {}
            /\ modcalls = <<>>
            /\ GroupAt = {}
            /\ groups = <<>>
            /\ ~ENABLED Next

\* The corner pattern fails in a run that would have run the modifier.
C7_Witness ==
    /\ status = "raised"
    /\ ~inputs.parametric
    /\ \E k \in DOMAIN calls :
          calls[k].call = "corner" /\ calls[k].outcome = "PrimaryAxisMissing"

\* The orientation part of a sequence of host calls: each horizontal or
\* vertical constraint with the line it is put on, and each distance
\* dimension's orientation.
Orientation(e) ==
    IF e.op = "addDistanceDimension" THEN <<"dimension", e.arg>> ELSE <<e.op, e.obj>>

IsOriented(e) == e.op \in {"addHorizontal", "addVertical", "addDistanceDimension"}

Orientations(ops, r) ==
    LET mine(e) == IsOriented(e) /\ e.rect = r
        sel == SelectSeq(ops, mine)
    IN  [k \in DOMAIN sel |-> Orientation(sel[k])]

Swapped(o) ==
    CASE o[1] = "addHorizontal" -> <<"addVertical", o[2]>>
      [] o[1] = "addVertical" -> <<"addHorizontal", o[2]>>
      [] o[2] = "HorizontalDimension" -> <<o[1], "VerticalDimension">>
      [] o[2] = "VerticalDimension" -> <<o[1], "HorizontalDimension">>

\* What the code applies to rectangle r for a horizontal border.
HorizontalCase(r) ==
    Orientations(constrain_finger(FALSE) \o constrain_horizontal_corners, r)

\* C4 as stated: for a vertical border, every rectangle the run has
\* constrained (the finger, the left corner, the right corner) carries the
\* swap of what a horizontal border gives it: horizontal and vertical
\* constraints exchanged line by line, and the distance dimensions vertical
\* instead of horizontal.
C4_VerticalIsSwap ==
    \A r \in {"finger"} \cup Corners :
        is_vertical /\ ConstrainAt(r) # {} =>
            Orientations(log, r) =
                [k \in DOMAIN HorizontalCase(r) |-> Swapped(HorizontalCase(r)[k])]

\* C5 as stated: in a call of duplicate with a valid primary reference the
\* second direction is set if and only if params.distance > 0 and the
\* secondary reference is present and valid; in every other case the message
\* box is shown and the second direction is not set; in both cases exactly
\* one pattern feature is added.
C5_SecondDirection ==
    \A k \in DOMAIN calls :
        LET c == calls[k]
            second == c.distance > 0 /\ c.secondary = "valid"
        IN  c.primary = "valid" =>
                /\ Issued(c, "setDirectionTwo") <=> second
                /\ ~second => Issued(c, "messageBox")
                /\ Cardinality({j \in DOMAIN c.ops : c.ops[j].op = "patterns.add"}) = 1
                /\ Len(c.added) = 1
                /\ c.added[1].second = second

\* C6 as stated: whatever the primary reference, the secondary reference and
\* params.distance, a call of duplicate either raises PrimaryAxisMissing or
\* returns after adding exactly one pattern feature.
C6_OnlyPrimaryAxisMissing ==
    \A k \in DOMAIN calls :
        \/ calls[k].outcome = "PrimaryAxisMissing"
        \/ calls[k].outcome = "ok" /\ Len(calls[k].added) = 1

\* Features the run has put in the timeline.
RunFeatures == {j \in DOMAIN timeline : timeline[j] # "earlier"}

\* C9: a run of draw that does not raise adds exactly one timeline group, as
\* its last host call; with m1 the marker position at the end and m0 the one
\* on entry (m1 less the features the run added), the group is
\* [m0 - 1, m1 - 1]; its start does not exceed its end, and every feature the
\* run created lies in it (timeline positions count from 0).
C9_TimelineGroup ==
    status = "done" =>
        LET m1 == marker
            m0 == m1 - Cardinality(RunFeatures)
        IN  /\ Len(groups) = 1
            /\ Cardinality(GroupAt) = 1
            /\ GroupAt = {Len(log)}
            /\ groups[1] = <<m0 - 1, m1 - 1>>
            /\ groups[1][1] <= groups[1][2]
            /\ Cardinality(RunFeatures) >= 2
            /\ \A j \in RunFeatures :
                  groups[1][1] <= j - 1 /\ j - 1 <= groups[1][2]

\* A run with corners ends with the marker before later items of the timeline.
C9_Witness ==
    /\ status = "done"
    /\ Cardinality(RunFeatures) = 4
    /\ marker < Len(timeline)

\* The arguments of a modifier call that getattr may have defaulted to None.
CornerArgs(a) ==
    {a.corner_cut, a.corner_pattern, a.left_dimension, a.right_dimension}

\* C10 as stated: at the end of every run of draw the modifier has been
\* invoked exactly once if and only if inputs.parametric is false.  Runs
\* ended by the AttributeError are set aside, as for C3.
C10_Original ==
    NoAttributeError /\ Ended => (Len(modcalls) = 1 <=> ~inputs.parametric)

\* C10 as amended: the modifier is never invoked when inputs.parametric is
\* true and never more than once; in a run of draw that does not raise it is
\* invoked exactly once if and only if inputs.parametric is false; when it is
\* invoked every finger and corner feature of the run already exists, and its
\* corner cut, corner pattern, left dimension and right dimension are None
\* exactly when the run drew no corner.
C10_Modifier ==
    /\ Len(modcalls) <= 1
    /\ Cardinality(ModifierAt) = Len(modcalls)
    /\ inputs.parametric => modcalls = <<>>
    /\ status = "done" => (Len(modcalls) = 1 <=> ~inputs.parametric)
    /\ modcalls # <<>> =>
          LET a == modcalls[1] IN
          /\ FingerCutAt # {} /\ FingerPatternAt # {}
          /\ CornersWanted => CornerCutAt # {} /\ CornerPatternAt # {}
                              /\ ConstrainAt("left_corner") # {}
                              /\ ConstrainAt("right_corner") # {}
          /\ Before(RectAt("finger") \cup ConstrainAt("finger") \cup FingerCutAt
                    \cup FingerPatternAt \cup CornerAt, ModifierAt)
          /\ "None" \notin {a.finger_dimension, a.offset_dimension, a.finger_cut,
                            a.finger_pattern}
          /\ "unset" \notin {a.finger_dimension, a.offset_dimension,
                             a.finger_cut, a.finger_pattern}
          /\ CornerAt = {} => CornerArgs(a) = {"None"}
          /\ CornerAt # {} => "None" \notin CornerArgs(a)

\* The modifier ran in a run that drew the corners.
C10_Witness ==
    /\ status = "done"
    /\ Len(modcalls) = 1
    /\ modcalls[1].corner_cut = "Corner Cut Extrude"
    /\ modcalls[1].left_dimension = "left_dimension"

\* The result Sketch.offset_point owes for the call recorded in sk_call.
C8_Result ==
    sk_call.fn # "none" =>
        LET x == sk_point[1]
            y == sk_point[2]
            z == sk_point[3]
            l == sk_call.length
            w == sk_call.width
        IN  /\ sk_vertical => sk_result = <<x + w, y + l, z>>
            /\ ~sk_vertical => sk_result = <<x + l, y + w, z>>
            /\ sk_result[3] = z
            /\ w = 0 => Cardinality({k \in 1 .. 3 : sk_result[k] # sk_point[k]}) <= 1
            /\ w = 0 /\ sk_vertical => sk_result[1] = x
            /\ w = 0 /\ ~sk_vertical => sk_result[2] = y

\* C8: offset_point(point, length, width) returns (x + width, y + length, z)
\* for a vertical border and (x + length, y + width, z) for a horizontal one;
\* z is never changed, with width 0 at most one axis changes, and the point
\* handed in is left as it was.
C8_OffsetPoint == [] C8_Result /\ [][sk_point' = sk_point]_vars

\* A call on a vertical border with both offsets non-zero and different.
C8_Witness ==
    /\ sk_vertical
    /\ sk_call.fn = "offset_point"
    /\ sk_call.length # 0 /\ sk_call.width # 0
    /\ sk_call.length # sk_call.width

====
